---- MODULE Spec2Model ----
(***************************************************************************)
(* State-machine model of the read-only wallet: the WalletProvider of      *)
(* contexts/WalletContext.tsx (React state, load/save effects, actions),   *)
(* the key library lib/wallet.ts, and the dashboard/onboarding handlers    *)
(* that call the provider through 500 ms deferred callbacks.               *)
(*                                                                         *)
(* Every JavaScript string is a sequence of tokens (TLA+ strings): a       *)
(* token " " is one blank, any other token is an opaque run of non-blank   *)
(* characters.  null and undefined are reserved one-token sequences.       *)
(***************************************************************************)
EXTENDS Integers, Sequences, FiniteSets, TLC

\* ------------------------------------------------------------------ bounds
MaxAccounts == 2
MaxIndex == 2
MaxTime == 1
MaxPending == 2
MaxFetching == 2

\* ------------------------------------------------------- values and texts
Null == <<"<null>">>
Undefined == <<"<undefined>">>
Garbage == <<"<not json>">>

BlockchainType == {"solana", "ethereum"}
NetworkType == {"mainnet", "testnet"}

STORAGE_KEY == "web3-wallet-state"
NETWORK_STORAGE_KEY == "web3-wallet-network"

IntToString(n) ==
  CASE n = -1 -> "-1" [] n = 0 -> "0" [] n = 1 -> "1" [] n = 2 -> "2"
    [] n = 3 -> "3" [] n = 4 -> "4" [] n = 5 -> "5" [] OTHER -> "6"

RECURSIVE TrimStart(_)
TrimStart(s) ==
  IF s = <<>> THEN <<>>
  ELSE IF Head(s) = " " THEN TrimStart(Tail(s)) ELSE s

RECURSIVE TrimEnd(_)
TrimEnd(s) ==
  IF s = <<>> THEN <<>>
  ELSE IF s[Len(s)] = " " THEN TrimEnd(SubSeq(s, 1, Len(s) - 1)) ELSE s

\* String.prototype.trim
Trim(s) == TrimEnd(TrimStart(s))

\* JavaScript truthiness of a string | null | undefined value
Truthy(s) == s # <<>> /\ s # Null /\ s # Undefined

\* a || b on such values
OrElse(a, b) == IF Truthy(a) THEN a ELSE b

\* ------------------------------------------------------------ lib/wallet.ts
\* Recovery phrases bip39 accepts (checksum-valid 12-word phrases), as tokens.
ValidPhrases == {<<"p1">>, <<"p2">>}

\* bip39.validateMnemonic on an already trimmed text
bip39Validate(text) == text \in ValidPhrases

\* a validation that would accept every non-empty text
validateMnemonicLenient(text) == Truthy(text)

validateMnemonic(text) ==
  IF ~Truthy(text) THEN FALSE ELSE bip39Validate(Trim(text))

\* bip39.mnemonicToSeedSync(mnemonic.trim()); callers pass a truthy mnemonic
mnemonicToSeed(mnemonic) == <<"seed">> \o Trim(mnemonic)

DERIVATION_PATHS(blockchain, index) ==
  IF blockchain = "solana"
  THEN <<"m/44'/501'/", IntToString(index), "'/0'">>
  ELSE <<"m/44'/60'/0'/0/", IntToString(index)>>

deriveSolanaKeypair(mnemonic, index) ==
  LET seed == mnemonicToSeed(mnemonic)
      path == DERIVATION_PATHS("solana", index)
  IN [publicKey |-> <<"ed25519-pub">> \o seed \o path,
      secretKey |-> <<"ed25519-secret">> \o seed \o path,
      derivationPath |-> path]

deriveEthereumWallet(mnemonic, index) ==
  LET path == DERIVATION_PATHS("ethereum", index)
  IN [publicKey |-> <<"secp256k1-address">> \o Trim(mnemonic) \o path,
      privateKey |-> <<"0x", "secp256k1-scalar">> \o Trim(mnemonic) \o path,
      derivationPath |-> path]

\* a createAccount that would keep the derived private key in the record
createAccountKeepingKey(mnemonic, blockchain, index, name, dateNow) ==
  LET id == <<blockchain, "-", IntToString(index), "-", IntToString(dateNow)>>
      accountName ==
        OrElse(name, <<IF blockchain = "solana" THEN "Solana" ELSE "Ethereum",
                       " ", "Account", " ", IntToString(index + 1)>>)
      derived == IF blockchain = "solana"
                 THEN deriveSolanaKeypair(mnemonic, index)
                 ELSE deriveEthereumWallet(mnemonic, index)
  IN [id |-> id,
      name |-> accountName,
      blockchain |-> blockchain,
      publicKey |-> derived.publicKey,
      derivationPath |-> derived.derivationPath,
      index |-> index,
      isImported |-> FALSE,
      importedPrivateKey |-> IF blockchain = "solana" THEN derived.secretKey
                             ELSE derived.privateKey]

\* An account record.  A field the object does not carry is Undefined
\* (importedPrivateKey) or FALSE (isImported).
createAccount(mnemonic, blockchain, index, name, dateNow) ==
  LET id == <<blockchain, "-", IntToString(index), "-", IntToString(dateNow)>>
      accountName ==
        OrElse(name, <<IF blockchain = "solana" THEN "Solana" ELSE "Ethereum",
                       " ", "Account", " ", IntToString(index + 1)>>)
      derived == IF blockchain = "solana"
                 THEN deriveSolanaKeypair(mnemonic, index)
                 ELSE deriveEthereumWallet(mnemonic, index)
  IN [id |-> id,
      name |-> accountName,
      blockchain |-> blockchain,
      publicKey |-> derived.publicKey,
      derivationPath |-> derived.derivationPath,
      index |-> index,
      isImported |-> FALSE,
      importedPrivateKey |-> Undefined]

\* bs58.encode of a secret key
bs58Encode(secretKey) == <<"bs58">> \o secretKey

\* Result of getPrivateKey: the key text, or Throw(message)
Throw(message) == <<"<throw>", message>>

getPrivateKey(mnemonic, account) ==
  IF account.isImported /\ Truthy(account.importedPrivateKey)
  THEN account.importedPrivateKey
  ELSE IF ~Truthy(mnemonic)
  THEN Throw("Mnemonic required for non-imported accounts")
  ELSE IF account.blockchain = "solana"
  THEN bs58Encode(deriveSolanaKeypair(mnemonic, account.index).secretKey)
  ELSE deriveEthereumWallet(mnemonic, account.index).privateKey

\* --- key texts.  A Solana key text is base58: the token names what it
\* decodes to.  An Ethereum key text is hex, optionally after a "0x" token.
\* Number of bytes bs58.decode yields for a one-token text, -1: decode throws
bs58DecodedLength(token) ==
  CASE token = "b58-keypair-a" -> 64
    [] token = "b58-keypair-mismatch" -> 64
    [] token = "b58-seed-a" -> 32
    [] token = "b58-31-bytes" -> 31
    [] OTHER -> -1

\* bs58.decode(text): [ok, length, token]; a text with a blank inside, an
\* empty text or a non-base58 token does not decode
bs58Decode(text) ==
  IF Len(text) = 1 /\ bs58DecodedLength(text[1]) >= 0
  THEN [ok |-> TRUE, length |-> bs58DecodedLength(text[1]), token |-> text[1]]
  ELSE [ok |-> FALSE, length |-> -1, token |-> "none"]

\* Keypair.fromSecretKey(decoded) succeeds iff the public half matches
KeypairFromSecretKeyOk(token) == token = "b58-keypair-a"

\* public key (base58) of the keypair a decoded Solana key yields
SolanaPublicKeyOf(token) ==
  IF token \in {"b58-keypair-a", "b58-seed-a"}
  THEN <<"ed25519-pub", "imported-a">>
  ELSE <<"ed25519-pub", token>>

\* a validation that would accept whatever decodes
validateSolanaPrivateKeyAnyLength(privateKey) ==
  bs58Decode(Trim(privateKey)).ok

validateSolanaPrivateKey(privateKey) ==
  LET decoded == bs58Decode(Trim(privateKey))
  IN IF ~decoded.ok THEN FALSE
     ELSE IF decoded.length # 64 /\ decoded.length # 32 THEN FALSE
     ELSE IF decoded.length = 64 THEN KeypairFromSecretKeyOk(decoded.token)
     ELSE TRUE

\* number of hex digits of a hex token, -1 for a token that is not hex
HexDigits(token) ==
  CASE token = "hex64-a" -> 64
    [] token = "hex64-zero" -> 64
    [] token = "hex64-above-order" -> 64
    [] token = "hex63" -> 63
    [] OTHER -> -1

\* text.startsWith("0x")
StartsWith0x(text) == text # <<>> /\ Head(text) = "0x"

\* /^0x[a-fA-F0-9]{64}$/.test(key)
MatchesHex64(key) == Len(key) = 2 /\ key[1] = "0x" /\ HexDigits(key[2]) = 64

\* new Wallet(key) succeeds iff key is 0x + 32 bytes of a valid scalar
WalletOk(key) == MatchesHex64(key) /\ key[2] = "hex64-a"

\* a validation that would stop at the pattern
validateEthereumPrivateKeyPatternOnly(privateKey) ==
  LET trimmed == Trim(privateKey)
      key == IF StartsWith0x(trimmed) THEN trimmed ELSE <<"0x">> \o trimmed
  IN MatchesHex64(key)

validateEthereumPrivateKey(privateKey) ==
  LET trimmed == Trim(privateKey)
      key == IF StartsWith0x(trimmed) THEN trimmed ELSE <<"0x">> \o trimmed
  IN IF ~MatchesHex64(key) THEN FALSE ELSE WalletOk(key)

\* an import that would store the key text as typed
importSolanaAccountAsTyped(privateKey, name, dateNow) ==
  LET decoded == bs58Decode(Trim(privateKey))
      ok == /\ decoded.ok
            /\ \/ decoded.length = 64 /\ KeypairFromSecretKeyOk(decoded.token)
               \/ decoded.length = 32
  IN IF ~ok THEN [ok |-> FALSE]
     ELSE [ok |-> TRUE,
           account |->
             [id |-> <<"solana", "-", "imported", "-", IntToString(dateNow)>>,
              name |-> OrElse(name, <<"Imported", " ", "Solana", " ", "Account">>),
              blockchain |-> "solana",
              publicKey |-> SolanaPublicKeyOf(decoded.token),
              derivationPath |-> <<"imported">>,
              index |-> -1,
              isImported |-> TRUE,
              importedPrivateKey |-> privateKey]]

importSolanaAccount(privateKey, name, dateNow) ==
  LET decoded == bs58Decode(Trim(privateKey))
      ok == /\ decoded.ok
            /\ \/ decoded.length = 64 /\ KeypairFromSecretKeyOk(decoded.token)
               \/ decoded.length = 32
  IN IF ~ok THEN [ok |-> FALSE]
     ELSE [ok |-> TRUE,
           account |->
             [id |-> <<"solana", "-", "imported", "-", IntToString(dateNow)>>,
              name |-> OrElse(name, <<"Imported", " ", "Solana", " ", "Account">>),
              blockchain |-> "solana",
              publicKey |-> SolanaPublicKeyOf(decoded.token),
              derivationPath |-> <<"imported">>,
              index |-> -1,
              isImported |-> TRUE,
              importedPrivateKey |-> Trim(privateKey)]]

importEthereumAccount(privateKey, name, dateNow) ==
  LET trimmed == Trim(privateKey)
      key == IF StartsWith0x(trimmed) THEN trimmed ELSE <<"0x">> \o trimmed
  IN IF ~WalletOk(key) THEN [ok |-> FALSE]
     ELSE [ok |-> TRUE,
           account |->
             [id |-> <<"ethereum", "-", "imported", "-", IntToString(dateNow)>>,
              name |-> OrElse(name, <<"Imported", " ", "Ethereum", " ", "Account">>),
              blockchain |-> "ethereum",
              publicKey |-> <<"secp256k1-address", key[2]>>,
              derivationPath |-> <<"imported">>,
              index |-> -1,
              isImported |-> TRUE,
              importedPrivateKey |-> key]]

importAccountFromPrivateKey(privateKey, blockchain, name, dateNow) ==
  IF blockchain = "solana"
  THEN importSolanaAccount(privateKey, name, dateNow)
  ELSE importEthereumAccount(privateKey, name, dateNow)

\* ------------------------------------------------- JSON and localStorage
\* JSON.stringify of an account: a key whose value is undefined is omitted
StringifyAccount(a) ==
  LET base == [id |-> a.id, name |-> a.name, blockchain |-> a.blockchain,
               publicKey |-> a.publicKey, derivationPath |-> a.derivationPath,
               index |-> a.index]
      flag == IF a.isImported THEN base @@ [isImported |-> TRUE] ELSE base
  IN IF a.importedPrivateKey # Undefined
     THEN flag @@ [importedPrivateKey |-> a.importedPrivateKey]
     ELSE flag

\* JSON.parse of an account: a missing key reads as undefined
ParseAccount(j) ==
  [id |-> j.id, name |-> j.name, blockchain |-> j.blockchain,
   publicKey |-> j.publicKey, derivationPath |-> j.derivationPath,
   index |-> j.index,
   isImported |-> IF "isImported" \in DOMAIN j THEN j.isImported ELSE FALSE,
   importedPrivateKey |->
     IF "importedPrivateKey" \in DOMAIN j THEN j.importedPrivateKey
     ELSE Undefined]

\* JSON.stringify(state) for a WalletState
Stringify(state) ==
  [mnemonic |-> state.mnemonic,
   accounts |-> [i \in 1..Len(state.accounts) |->
                   StringifyAccount(state.accounts[i])],
   solanaIndex |-> state.solanaIndex,
   ethereumIndex |-> state.ethereumIndex]

\* JSON.parse(stored)
Parse(json) ==
  [mnemonic |-> json.mnemonic,
   accounts |-> [i \in 1..Len(json.accounts) |-> ParseAccount(json.accounts[i])],
   solanaIndex |-> json.solanaIndex,
   ethereumIndex |-> json.ethereumIndex]

EmptyJson ==
  [mnemonic |-> Null, accounts |-> <<>>, solanaIndex |-> 0, ethereumIndex |-> 0]

\* A localStorage entry: absent, a JSON text, or a text JSON.parse rejects
NoItem == [kind |-> "absent", json |-> EmptyJson]
GarbageItem == [kind |-> "garbage", json |-> EmptyJson]
JsonItem(state) == [kind |-> "json", json |-> Stringify(state)]

\* ------------------------------------------------------------------ state
VARIABLES
  mnemonic,        \* useState<string | null>
  accounts,        \* useState<WalletAccount[]>
  solanaIndex,     \* useState(0)
  ethereumIndex,   \* useState(0)
  network,         \* useState<NetworkType>("testnet")
  isInitialized,   \* useState(false)
  isLoading,       \* useState(true)
  storage,         \* localStorage: [wallet, network]
  effectPending,   \* the save effect is queued for the last committed render
  timers,          \* pending setTimeout(..., 500) callbacks, oldest first
  now,             \* Date.now()
  lastCall,        \* what the last step called, on which account id, and
                   \* the kind of result it returned
  produced,        \* history: <<chain, index>> of every record addAccount made
  keyAtImport,     \* history: per account, the normalized key text at import
  libCall,         \* the last call of a lib/wallet.ts function or of
                   \* getAccountPrivateKey: function, arguments and result
  libPrev,         \* the derivation or reveal call before that one
  balances,        \* WalletDashboard's useState<BalanceState>({}): one entry
                   \* per account id, with the network its balance came from
  fetching         \* fetchBalance calls awaiting their RPC answer

react == <<mnemonic, accounts, solanaIndex, ethereumIndex, network,
           isInitialized, isLoading>>
wallet == <<mnemonic, accounts, solanaIndex, ethereumIndex, isInitialized>>
vars == <<mnemonic, accounts, solanaIndex, ethereumIndex, network,
          isInitialized, isLoading, storage, effectPending, timers, now,
          lastCall, produced, keyAtImport, libCall, libPrev, balances,
          fetching>>
lib == <<libCall, libPrev>>
dashboard == <<balances, fetching>>

\* no library function has been called
NoLibCall == [fn |-> "none"]

NoCall == [op |-> "none", id |-> <<>>, result |-> "none"]
Call(op, result) == [op |-> op, id |-> <<>>, result |-> result]
CallOn(op, accountId, result) == [op |-> op, id |-> accountId, result |-> result]

\* ----------------------------------------------------------------- inputs
AccountNameInputs == {<<>>, <<"N">>}
\* the name field of the import dialogs as the application is driven
ImportNameInputs == {<<>>}
RenameInputs == {<<>>, <<" ">>, <<"N">>}
EditNameInputs == {<<>>, <<" ">>, <<" ", "N">>}
MnemonicInputs == {<<"p1">>, <<" ", "p2", " ">>, <<"p9">>, <<>>}
SolanaKeyInputs == {<<" ", "b58-seed-a", " ">>, <<"b58-31-bytes">>}
EthereumKeyInputs ==
  {<<" ", "hex64-a">>, <<"0x", "hex64-a", " ">>, <<"hex63">>}
KeyInputs(blockchain) ==
  IF blockchain = "solana" THEN SolanaKeyInputs ELSE EthereumKeyInputs
AbsentId == <<"no-such-id">>
AccountIds == {accounts[i].id : i \in 1..Len(accounts)} \cup {AbsentId}

\* What the claims call the normalized key text of an import
NormalizedKeyText(privateKey, blockchain) ==
  IF blockchain = "solana" THEN Trim(privateKey)
  ELSE IF Trim(privateKey) # <<>> /\ Head(Trim(privateKey)) = "0x"
  THEN Trim(privateKey)
  ELSE <<"0x">> \o Trim(privateKey)

Init ==
  /\ mnemonic = Null
  /\ accounts = <<>>
  /\ solanaIndex = 0
  /\ ethereumIndex = 0
  /\ network = "testnet"
  /\ isInitialized = FALSE
  /\ isLoading = TRUE
  /\ storage \in {[wallet |-> w, network |-> "absent"] :
                    w \in {NoItem, GarbageItem}}
  /\ effectPending = FALSE
  /\ timers = <<>>
  /\ now = 0
  /\ lastCall = NoCall
  /\ produced = {}
  /\ keyAtImport = <<>>
  /\ libCall = NoLibCall
  /\ libPrev = NoLibCall
  /\ balances = {}
  /\ fetching = {}

\* ----------------------------------------- contexts/WalletContext.tsx
\* The UI (and so every handler) is reachable once loading has finished and
\* the effects of the last render have run.
Idle == ~isLoading /\ ~effectPending

\* a save effect that would write the state also without a phrase
SaveEffectWriteAlways(m, accs, sIndex, eIndex) ==
  JsonItem([mnemonic |-> m, accounts |-> accs, solanaIndex |-> sIndex,
            ethereumIndex |-> eIndex])

\* What the save effect leaves under STORAGE_KEY for a render with this state
SaveEffectWrite(m, accs, sIndex, eIndex) ==
  IF Truthy(m)
  THEN JsonItem([mnemonic |-> m, accounts |-> accs, solanaIndex |-> sIndex,
                 ethereumIndex |-> eIndex])
  ELSE NoItem

\* a save effect that would not wait for the load
SaveEffectOfRenderUngated(loading, m, accs, sIndex, eIndex, item) ==
  SaveEffectWrite(m, accs, sIndex, eIndex)

\* The save effect of a render: if (isLoading) return; otherwise the entry
\* is written or removed.  item is the entry before the effect.
SaveEffectOfRender(loading, m, accs, sIndex, eIndex, item) ==
  IF loading THEN item ELSE SaveEffectWrite(m, accs, sIndex, eIndex)

\* The effects of the mount render, in the order of their declaration: the
\* load effect, then the save effect of that render, whose closure holds
\* the initial state with isLoading = true.
LoadEffect ==
  /\ UNCHANGED <<lib, dashboard>>
  /\ isLoading
  /\ LET item == storage.wallet
         state == Parse(item.json)
     IN /\ IF item.kind = "json"
           THEN /\ mnemonic' = state.mnemonic
                /\ accounts' = state.accounts
                /\ solanaIndex' = state.solanaIndex
                /\ ethereumIndex' = state.ethereumIndex
                /\ isInitialized' = TRUE
           ELSE UNCHANGED wallet
        \* JSON.parse throwing skips the network preference as well
        /\ IF item.kind # "garbage" /\ storage.network \in NetworkType
           THEN network' = storage.network
           ELSE UNCHANGED network
  /\ isLoading' = FALSE
  /\ effectPending' = TRUE
  /\ keyAtImport' = [i \in 1..Len(accounts') |-> accounts'[i].importedPrivateKey]
  /\ lastCall' = NoCall
  /\ storage' = [storage EXCEPT !.wallet =
                   SaveEffectOfRender(isLoading, mnemonic, accounts,
                                      solanaIndex, ethereumIndex, @)]
  /\ UNCHANGED <<timers, now, produced>>

\* The save effect after the render that follows a state change.  React runs
\* it before the next event is handled, so it is part of the step that
\* changed the state.
SaveEffectRuns(m, accs, sIndex, eIndex) ==
  storage' = [storage EXCEPT !.wallet = SaveEffectWrite(m, accs, sIndex, eIndex)]

\* Save effect of the render that follows the load effect
SaveEffect ==
  /\ UNCHANGED <<lib, dashboard>>
  /\ effectPending
  /\ storage' = [storage EXCEPT !.wallet =
                   SaveEffectOfRender(isLoading, mnemonic, accounts,
                                      solanaIndex, ethereumIndex, @)]
  /\ effectPending' = FALSE
  /\ lastCall' = NoCall
  /\ UNCHANGED <<react, timers, now, produced, keyAtImport>>

\* WalletDashboard is rendered while the wallet is initialized (Home,
\* part_000 30-34).  When it unmounts its state is discarded and the answers
\* of the requests still in flight update nothing.
DashboardUnmounts ==
  /\ balances' = {}
  /\ fetching' = {}

\* generateMnemonic(): a fresh valid phrase
GeneratedPhrases == ValidPhrases

CreateNewWallet ==
  /\ UNCHANGED <<lib, dashboard>>
  /\ Idle
  /\ \E newMnemonic \in GeneratedPhrases :
       /\ mnemonic' = newMnemonic
       /\ SaveEffectRuns(newMnemonic, <<>>, 0, 0)
  /\ lastCall' = Call("createNewWallet", "phrase")
  /\ accounts' = <<>>
  /\ solanaIndex' = 0
  /\ ethereumIndex' = 0
  /\ isInitialized' = TRUE
  /\ produced' = {}
  /\ keyAtImport' = <<>>
  /\ UNCHANGED <<network, isLoading, effectPending, timers, now>>

\* an importWallet that would keep the phrase as typed
ImportWalletAsTyped(importedMnemonic) ==
  /\ UNCHANGED <<lib, dashboard>>
  /\ Idle
  /\ IF ~validateMnemonic(importedMnemonic)
     THEN /\ lastCall' = Call("importWallet", "false")
          /\ UNCHANGED <<wallet, storage, produced, keyAtImport>>
     ELSE /\ mnemonic' = importedMnemonic
          /\ accounts' = <<>>
          /\ solanaIndex' = 0
          /\ ethereumIndex' = 0
          /\ isInitialized' = TRUE
          /\ SaveEffectRuns(importedMnemonic, <<>>, 0, 0)
          /\ produced' = {}
          /\ keyAtImport' = <<>>
          /\ lastCall' = Call("importWallet", "true")
  /\ UNCHANGED <<network, isLoading, effectPending, timers, now>>

\* importWallet
ImportWallet(importedMnemonic) ==
  /\ UNCHANGED <<lib, dashboard>>
  /\ Idle
  /\ IF ~validateMnemonic(importedMnemonic)
     THEN /\ lastCall' = Call("importWallet", "false")
          /\ UNCHANGED <<wallet, storage, produced, keyAtImport>>
     ELSE /\ mnemonic' = Trim(importedMnemonic)
          /\ accounts' = <<>>
          /\ solanaIndex' = 0
          /\ ethereumIndex' = 0
          /\ isInitialized' = TRUE
          /\ SaveEffectRuns(Trim(importedMnemonic), <<>>, 0, 0)
          /\ produced' = {}
          /\ keyAtImport' = <<>>
          /\ lastCall' = Call("importWallet", "true")
  /\ UNCHANGED <<network, isLoading, effectPending, timers, now>>

\* handleImportWallet: validate, then setTimeout(() => importWallet(...), 500);
\* importWallet captures no state, so the deferred call is the call
HandleImportWallet(importedMnemonic) ==
  /\ validateMnemonic(importedMnemonic)
  /\ ImportWallet(importedMnemonic)

\* a setter that would write the counter back as it was
IncrementIndexLost(prev) == prev

\* (prev) => prev + 1
IncrementIndex(prev) == prev + 1

\* an updater that would put the new record first
AppendAccountFirst(prev, account) == <<account>> \o prev

\* (prev) => [...prev, account]
AppendAccount(prev, account) == Append(prev, account)

\* if (!mnemonic) throw new Error("Wallet not initialized")
AddAccountThrows(closureMnemonic) == ~Truthy(closureMnemonic)

\* an addAccount that would write the phrase of its closure back to the state
AddAccountRestoringPhrase(blockchain, name, closureMnemonic, closureIndex) ==
  IF AddAccountThrows(closureMnemonic)
  THEN /\ lastCall' = Call("addAccount", "throw Wallet not initialized")
       /\ UNCHANGED <<react, storage, produced, keyAtImport>>
  ELSE LET index == closureIndex
           account == createAccount(closureMnemonic, blockchain, index, name, now)
       IN /\ accounts' = AppendAccount(accounts, account)
          /\ mnemonic' = closureMnemonic
          /\ IF blockchain = "solana"
             THEN /\ solanaIndex' = IncrementIndex(solanaIndex)
                  /\ UNCHANGED ethereumIndex
             ELSE /\ ethereumIndex' = IncrementIndex(ethereumIndex)
                  /\ UNCHANGED solanaIndex
          /\ SaveEffectRuns(closureMnemonic, accounts', solanaIndex',
                            ethereumIndex')
          /\ lastCall' = Call("addAccount", "account")
          /\ produced' = produced \cup {<<blockchain, index>>}
          /\ keyAtImport' = Append(keyAtImport, Undefined)
          /\ UNCHANGED <<network, isInitialized, isLoading>>

\* addAccount as created by the render whose mnemonic was closureMnemonic and
\* whose counter for the chain (blockchain === "solana" ? solanaIndex :
\* ethereumIndex) was closureIndex
AddAccount(blockchain, name, closureMnemonic, closureIndex) ==
  IF AddAccountThrows(closureMnemonic)
  THEN /\ lastCall' = Call("addAccount", "throw Wallet not initialized")
       /\ UNCHANGED <<react, storage, produced, keyAtImport>>
  ELSE LET index == closureIndex
           account == createAccount(closureMnemonic, blockchain, index, name, now)
       IN /\ accounts' = AppendAccount(accounts, account)
          /\ IF blockchain = "solana"
             THEN /\ solanaIndex' = IncrementIndex(solanaIndex)
                  /\ UNCHANGED ethereumIndex
             ELSE /\ ethereumIndex' = IncrementIndex(ethereumIndex)
                  /\ UNCHANGED solanaIndex
          /\ SaveEffectRuns(mnemonic, accounts', solanaIndex', ethereumIndex')
          /\ lastCall' = Call("addAccount", "account")
          /\ produced' = produced \cup {<<blockchain, index>>}
          /\ keyAtImport' = Append(keyAtImport, Undefined)
          /\ UNCHANGED <<mnemonic, network, isInitialized, isLoading>>

\* an updater that would drop the oldest record, whatever its id
RemoveAccountUpdaterOldest(prev, accountId) ==
  IF prev = <<>> THEN prev ELSE Tail(prev)

\* (prev) => prev.filter((account) => account.id !== accountId)
RemoveAccountUpdater(prev, accountId) ==
  SelectSeq(prev, LAMBDA account : account.id # accountId)

\* the entries of a sequence aligned with prev whose account stays
RECURSIVE KeepAligned(_, _, _)
KeepAligned(aligned, prev, accountId) ==
  IF prev = <<>> THEN <<>>
  ELSE IF Head(prev).id # accountId
  THEN <<Head(aligned)>> \o KeepAligned(Tail(aligned), Tail(prev), accountId)
  ELSE KeepAligned(Tail(aligned), Tail(prev), accountId)

RemoveAccount(accountId) ==
  /\ UNCHANGED <<lib, dashboard>>
  /\ Idle
  /\ accounts' = RemoveAccountUpdater(accounts, accountId)
  /\ keyAtImport' = KeepAligned(keyAtImport, accounts, accountId)
  /\ SaveEffectRuns(mnemonic, accounts', solanaIndex, ethereumIndex)
  /\ lastCall' = CallOn("removeAccount", accountId, "void")
  /\ UNCHANGED <<mnemonic, solanaIndex, ethereumIndex, network, isInitialized,
                 isLoading, effectPending, timers, now, produced>>

\* an updater that would move the renamed record behind the others
RenameAccountUpdaterLast(prev, accountId, newName) ==
  SelectSeq(prev, LAMBDA account : account.id # accountId)
    \o [i \in 1..Len(SelectSeq(prev, LAMBDA account : account.id = accountId))
          |-> [SelectSeq(prev, LAMBDA account : account.id = accountId)[i]
                 EXCEPT !.name = newName]]

\* (prev) => prev.map((account) =>
\*   account.id === accountId ? { ...account, name: newName } : account)
RenameAccountUpdater(prev, accountId, newName) ==
  [i \in 1..Len(prev) |->
     IF prev[i].id = accountId THEN [prev[i] EXCEPT !.name = newName]
     ELSE prev[i]]

RenameAccount(accountId, newName) ==
  /\ UNCHANGED <<lib, dashboard>>
  /\ Idle
  /\ accounts' = RenameAccountUpdater(accounts, accountId, newName)
  /\ SaveEffectRuns(mnemonic, accounts', solanaIndex, ethereumIndex)
  /\ lastCall' = CallOn("renameAccount", accountId, "void")
  /\ UNCHANGED <<mnemonic, solanaIndex, ethereumIndex, network, isInitialized,
                 isLoading, effectPending, timers, now, produced,
                 keyAtImport>>

\* an importAccount that would mark the wallet initialized before looking
\* at the result
ImportAccountEager(privateKey, blockchain, name, closureIsInitialized) ==
  LET imported == importAccountFromPrivateKey(privateKey, blockchain, name, now)
  IN IF imported.ok
     THEN /\ accounts' = Append(accounts, imported.account)
          /\ isInitialized' = TRUE
          /\ SaveEffectRuns(mnemonic, accounts', solanaIndex, ethereumIndex)
          /\ lastCall' = Call("importAccount", "account")
          /\ keyAtImport' =
               Append(keyAtImport, NormalizedKeyText(privateKey, blockchain))
          /\ UNCHANGED <<mnemonic, solanaIndex, ethereumIndex, network,
                         isLoading, produced>>
     ELSE /\ lastCall' = Call("importAccount", "null")
          /\ isInitialized' = TRUE
          /\ UNCHANGED <<mnemonic, accounts, solanaIndex, ethereumIndex,
                         network, isLoading, storage, produced, keyAtImport>>

\* importAccount as created by a render whose isInitialized was
\* closureIsInitialized
ImportAccount(privateKey, blockchain, name, closureIsInitialized) ==
  LET imported == importAccountFromPrivateKey(privateKey, blockchain, name, now)
  IN IF imported.ok
     THEN /\ accounts' = AppendAccount(accounts, imported.account)
          /\ isInitialized' = IF ~closureIsInitialized THEN TRUE
                              ELSE isInitialized
          /\ SaveEffectRuns(mnemonic, accounts', solanaIndex, ethereumIndex)
          /\ lastCall' = Call("importAccount", "account")
          /\ keyAtImport' =
               Append(keyAtImport, NormalizedKeyText(privateKey, blockchain))
          /\ UNCHANGED <<mnemonic, solanaIndex, ethereumIndex, network,
                         isLoading, produced>>
     ELSE /\ lastCall' = Call("importAccount", "null")
          /\ UNCHANGED <<react, storage, produced, keyAtImport>>

validatePrivateKey(privateKey, blockchain) ==
  IF blockchain = "solana" THEN validateSolanaPrivateKey(privateKey)
  ELSE validateEthereumPrivateKey(privateKey)

\* a reveal that would go to the mnemonic for every account
getAccountPrivateKeyDerived(closureMnemonic, account) ==
  IF ~Truthy(closureMnemonic) THEN Null
  ELSE getPrivateKey(closureMnemonic, account)

getAccountPrivateKey(closureMnemonic, account) ==
  IF account.isImported /\ Truthy(account.importedPrivateKey)
  THEN account.importedPrivateKey
  ELSE IF ~Truthy(closureMnemonic) THEN Null
  ELSE getPrivateKey(closureMnemonic, account)

ClearWallet ==
  /\ UNCHANGED lib
  /\ DashboardUnmounts
  /\ Idle
  /\ mnemonic' = Null
  /\ accounts' = <<>>
  /\ solanaIndex' = 0
  /\ ethereumIndex' = 0
  /\ isInitialized' = FALSE
  \* localStorage.removeItem(STORAGE_KEY), then the save effect removes again
  /\ SaveEffectRuns(Null, <<>>, 0, 0)
  /\ lastCall' = Call("clearWallet", "void")
  /\ produced' = {}
  /\ keyAtImport' = <<>>
  /\ UNCHANGED <<network, isLoading, effectPending, timers, now>>

\* ------------------------------------ dashboard and onboarding handlers
NoTimerKey == <<>>

\* room for one more record once every pending callback has run
RoomForAccount == Len(accounts) + Len(timers) < MaxAccounts

PendingAdds(blockchain) ==
  Cardinality({i \in 1..Len(timers) :
                 timers[i].kind = "add" /\ timers[i].blockchain = blockchain})

\* handleAddAccount: setTimeout(() => addAccount(...), 500) with the
\* addAccount of the current render
HandleAddAccount(selectedBlockchain, newAccountName) ==
  /\ UNCHANGED <<lib, dashboard>>
  /\ Idle
  /\ Len(timers) < MaxPending
  /\ RoomForAccount
  /\ (IF selectedBlockchain = "solana" THEN solanaIndex ELSE ethereumIndex)
       + PendingAdds(selectedBlockchain) < MaxIndex
  /\ timers' = Append(timers,
       [kind |-> "add", blockchain |-> selectedBlockchain,
        name |-> OrElse(newAccountName, Undefined),
        privateKey |-> NoTimerKey,
        mnemonic |-> mnemonic,
        index |-> IF selectedBlockchain = "solana" THEN solanaIndex
                  ELSE ethereumIndex,
        isInitialized |-> FALSE])
  /\ lastCall' = NoCall
  /\ UNCHANGED <<react, storage, effectPending, now, produced,
                 keyAtImport>>

\* handleImportAccount / handleImportPrivateKey: validate, then
\* setTimeout(() => importAccount(...), 500) with the importAccount of the
\* current render
HandleImportAccount(importPrivateKey, selectedBlockchain, newAccountName) ==
  /\ UNCHANGED <<lib, dashboard>>
  /\ Idle
  /\ Len(timers) < MaxPending
  /\ RoomForAccount
  /\ Truthy(Trim(importPrivateKey))
  /\ validatePrivateKey(importPrivateKey, selectedBlockchain)
  /\ timers' = Append(timers,
       [kind |-> "import", blockchain |-> selectedBlockchain,
        name |-> OrElse(newAccountName, Undefined),
        privateKey |-> importPrivateKey,
        mnemonic |-> Null, index |-> 0,
        isInitialized |-> isInitialized])
  /\ lastCall' = NoCall
  /\ UNCHANGED <<react, storage, effectPending, now, produced,
                 keyAtImport>>

\* the oldest pending callback runs
TimerFires ==
  /\ UNCHANGED <<lib, dashboard>>
  /\ Idle
  /\ timers # <<>>
  /\ LET t == Head(timers)
     IN IF t.kind = "add"
        THEN AddAccount(t.blockchain, t.name, t.mnemonic, t.index)
        ELSE ImportAccount(t.privateKey, t.blockchain, t.name, t.isInitialized)
  /\ timers' = Tail(timers)
  /\ UNCHANGED <<effectPending, now>>

\* importAccount called with the closure of the current render
CallImportAccount(privateKey, blockchain, name) ==
  /\ UNCHANGED <<lib, dashboard>>
  /\ Idle
  /\ RoomForAccount
  /\ ImportAccount(privateKey, blockchain, OrElse(name, Undefined),
                   isInitialized)
  /\ UNCHANGED <<effectPending, timers, now>>

\* handleSaveEdit
HandleSaveEdit(accountId, editName) ==
  /\ UNCHANGED <<lib, dashboard>>
  /\ Idle
  /\ IF Truthy(Trim(editName))
     THEN /\ accounts' = RenameAccountUpdater(accounts, accountId, Trim(editName))
          /\ SaveEffectRuns(mnemonic, accounts', solanaIndex, ethereumIndex)
     ELSE UNCHANGED <<accounts, storage>>
  /\ lastCall' = Call("handleSaveEdit", "void")
  /\ UNCHANGED <<mnemonic, solanaIndex, ethereumIndex, network, isInitialized,
                 isLoading, effectPending, timers, now, produced,
                 keyAtImport>>

\* accounts.filter((a) => a.blockchain === "solana")
solanaAccounts ==
  SelectSeq(accounts, LAMBDA a : a.blockchain = "solana")

\* accounts.filter((a) => a.blockchain === "ethereum")
ethereumAccounts ==
  SelectSeq(accounts, LAMBDA a : a.blockchain = "ethereum")

\* ------------------------------------------------------------ environment
\* the millisecond clock advances
Tick ==
  /\ UNCHANGED <<lib, dashboard>>
  /\ now < MaxTime
  /\ now' = now + 1
  /\ lastCall' = NoCall
  /\ UNCHANGED <<react, storage, effectPending, timers,
                 produced, keyAtImport>>

\* The page is reloaded: a fresh WalletProvider mounts over the same
\* localStorage, its load effect runs, and the save effect runs for the render
\* that follows.  Pending callbacks die with the old page.
Reload ==
  /\ UNCHANGED lib
  /\ DashboardUnmounts
  /\ Idle
  /\ LET item == storage.wallet
         state == Parse(item.json)
         loaded == item.kind = "json"
         m == IF loaded THEN state.mnemonic ELSE Null
         accs == IF loaded THEN state.accounts ELSE <<>>
         sIndex == IF loaded THEN state.solanaIndex ELSE 0
         eIndex == IF loaded THEN state.ethereumIndex ELSE 0
     IN /\ mnemonic' = m
        /\ accounts' = accs
        /\ solanaIndex' = sIndex
        /\ ethereumIndex' = eIndex
        /\ isInitialized' = loaded
        /\ network' = IF item.kind # "garbage" /\ storage.network \in NetworkType
                      THEN storage.network ELSE "testnet"
        /\ SaveEffectRuns(m, accs, sIndex, eIndex)
        /\ keyAtImport' = [i \in 1..Len(accs) |-> accs[i].importedPrivateKey]
  /\ timers' = <<>>
  /\ lastCall' = Call("reload", "void")
  /\ produced' = {}
  /\ UNCHANGED <<isLoading, effectPending, now>>

Next ==
  \/ LoadEffect
  \/ SaveEffect
  \/ CreateNewWallet
  \/ \E text \in MnemonicInputs : HandleImportWallet(text)
  \/ \E b \in BlockchainType, n \in AccountNameInputs : HandleAddAccount(b, n)
  \/ \E b \in BlockchainType, n \in ImportNameInputs :
       \E k \in KeyInputs(b) : HandleImportAccount(k, b, n)
  \/ TimerFires
  \/ \E id \in AccountIds : RemoveAccount(id)
  \/ \E id \in AccountIds, n \in EditNameInputs : HandleSaveEdit(id, n)
  \/ ClearWallet
  \/ Tick
  \/ Reload

\* The application: the provider driven by the dashboard and onboarding
\* handlers.
Spec == Init /\ [][Next]_vars

\* The provider called directly by a client, with arguments no handler of
\* the application would pass.
\* what a caller of importWallet can pass: the texts of the form, and the
\* non-string values validateMnemonic guards against (wallet.ts 57)
ApiMnemonicInputs == MnemonicInputs \cup {Null, Undefined}

ApiNext ==
  \/ LoadEffect
  \/ SaveEffect
  \/ CreateNewWallet
  \/ \E b \in BlockchainType, n \in AccountNameInputs : HandleAddAccount(b, n)
  \/ TimerFires
  \/ \E b \in BlockchainType, n \in AccountNameInputs :
       \E k \in KeyInputs(b) : CallImportAccount(k, b, n)
  \/ \E text \in ApiMnemonicInputs : ImportWallet(text)
  \/ \E id \in AccountIds, n \in RenameInputs : RenameAccount(id, n)
  \/ \E id \in AccountIds : RemoveAccount(id)

ApiSpec == Init /\ [][ApiNext]_vars

\* ------------------------------------------------ the library, called
\* directly.  Each step calls one function of lib/wallet.ts (or the
\* provider's getAccountPrivateKey) with arguments drawn from the sets below
\* and records the call; the provider is created, cleared and loaded around
\* the calls.

\* phrase texts: "P1" is phrase p1 in upper case and "p1-double-spaced" is
\* p1 with two blanks between its words; bip39 splits the text on single
\* blanks and looks every word up in the lower-case word list
LibMnemonicTexts ==
  {<<"p1">>, <<" ", "p1", " ">>, <<"P1">>, <<"p1-double-spaced">>,
   <<"p9">>, <<>>, Null, Undefined}

LibEthereumTexts ==
  {<<"hex64-a">>, <<"0x", "hex64-a">>, <<" ", "hex64-a", " ">>,
   <<"hex63">>, <<"0x", "hex63">>, <<"hex64-zero">>,
   <<"0x", "hex64-above-order">>, <<"not-hex">>, <<>>}

LibSolanaTexts ==
  {<<"b58-keypair-a">>, <<" ", "b58-keypair-a", " ">>,
   <<"b58-keypair-mismatch">>, <<"b58-seed-a">>, <<"b58-31-bytes">>,
   <<"not-base58">>, <<>>}

LibKeyTexts(blockchain) ==
  IF blockchain = "solana" THEN LibSolanaTexts ELSE LibEthereumTexts

LibIndices == 0..1

\* account records to reveal: HD records of phrase p1 and imported records
LibAccounts ==
  {createAccount(<<"p1">>, "solana", 0, Undefined, 0),
   createAccount(<<"p1">>, "ethereum", 1, Undefined, 0),
   importSolanaAccount(<<"b58-seed-a">>, Undefined, 0).account,
   importEthereumAccount(<<"hex64-a">>, Undefined, 0).account}

\* the functions that derive or reveal keys
DerivationFns ==
  {"deriveSolanaKeypair", "deriveEthereumWallet", "createAccount",
   "getPrivateKey", "getAccountPrivateKey"}

\* a function of the library runs: it sets no React state and touches no
\* storage
LibCalled(fn, args, result) ==
  /\ libCall' = [fn |-> fn, args |-> args, result |-> result]
  /\ libPrev' = IF libCall.fn \in DerivationFns THEN libCall ELSE NoLibCall
  /\ UNCHANGED <<react, storage, effectPending, timers, now, lastCall,
                 produced, keyAtImport, dashboard>>

CallValidateMnemonic(text) ==
  LET result == validateMnemonic(text)
  IN LibCalled("validateMnemonic", <<text>>, result)

CallValidatePrivateKey(text, blockchain) ==
  IF blockchain = "solana"
  THEN LibCalled("validateSolanaPrivateKey", <<text>>,
                 validateSolanaPrivateKey(text))
  ELSE LibCalled("validateEthereumPrivateKey", <<text>>,
                 validateEthereumPrivateKey(text))

CallImportAccountFromPrivateKey(text, blockchain) ==
  LET result == importAccountFromPrivateKey(text, blockchain, Undefined, now)
  IN LibCalled("importAccountFromPrivateKey", <<text, blockchain>>, result)

\* a derivation that would read the wallet's phrase instead of its argument
CallDeriveOfWallet(phrase, blockchain, index) ==
  LET used == IF Truthy(mnemonic) THEN mnemonic ELSE phrase
  IN IF blockchain = "solana"
     THEN LibCalled("deriveSolanaKeypair", <<phrase, index>>,
                    deriveSolanaKeypair(used, index))
     ELSE LibCalled("deriveEthereumWallet", <<phrase, index>>,
                    deriveEthereumWallet(used, index))

CallDerive(phrase, blockchain, index) ==
  IF blockchain = "solana"
  THEN LibCalled("deriveSolanaKeypair", <<phrase, index>>,
                 deriveSolanaKeypair(phrase, index))
  ELSE LibCalled("deriveEthereumWallet", <<phrase, index>>,
                 deriveEthereumWallet(phrase, index))

CallCreateAccount(phrase, blockchain, index) ==
  LET result == createAccount(phrase, blockchain, index, Undefined, now)
  IN LibCalled("createAccount", <<phrase, blockchain, index>>, result)

CallGetPrivateKey(m, account) ==
  LET result == getPrivateKey(m, account)
  IN LibCalled("getPrivateKey", <<m, account>>, result)

\* the key an AccountCard shows: getAccountPrivateKey of the current render
CallGetAccountPrivateKey(account) ==
  LET result == getAccountPrivateKey(mnemonic, account)
  IN LibCalled("getAccountPrivateKey", <<mnemonic, account>>, result)

LibNext ==
  \/ LoadEffect
  \/ SaveEffect
  \/ CreateNewWallet
  \/ ClearWallet
  \/ \E text \in LibMnemonicTexts : CallValidateMnemonic(text)
  \/ \E b \in BlockchainType : \E text \in LibKeyTexts(b) :
       CallValidatePrivateKey(text, b)
  \/ \E b \in BlockchainType : \E text \in LibKeyTexts(b) :
       CallImportAccountFromPrivateKey(text, b)
  \/ \E phrase \in ValidPhrases, b \in BlockchainType, i \in LibIndices :
       CallDerive(phrase, b, i)
  \/ \E phrase \in ValidPhrases, b \in BlockchainType, i \in LibIndices :
       CallCreateAccount(phrase, b, i)
  \/ \E m \in {Null} \cup ValidPhrases, a \in LibAccounts :
       CallGetPrivateKey(m, a)
  \/ \E a \in LibAccounts : CallGetAccountPrivateKey(a)

LibSpec == Init /\ [][LibNext]_vars

\* ------------------------------------------- the network and the balances
\* a setNetwork that would keep the preference in memory only
SetNetworkNotStored(newNetwork) ==
  /\ Idle
  /\ network' = newNetwork
  /\ balances' = IF newNetwork # network THEN {} ELSE balances
  /\ lastCall' = Call("setNetwork", "void")
  /\ UNCHANGED <<mnemonic, accounts, solanaIndex, ethereumIndex,
                 isInitialized, isLoading, effectPending, timers, now,
                 produced, keyAtImport, lib, fetching, storage>>

\* setNetwork (WalletContext.tsx 210-213), then WalletDashboard's effect on
\* [network] (part_001 250-253), which empties the balances when the
\* rendered network has changed.
SetNetwork(newNetwork) ==
  /\ Idle
  /\ network' = newNetwork
  /\ storage' = [storage EXCEPT !.network = newNetwork]
  /\ balances' = IF newNetwork # network THEN {} ELSE balances
  /\ lastCall' = Call("setNetwork", "void")
  /\ UNCHANGED <<mnemonic, accounts, solanaIndex, ethereumIndex,
                 isInitialized, isLoading, effectPending, timers, now,
                 produced, keyAtImport, lib, fetching>>

\* handleNetworkSwitch: the Switch shows checked = (network = "testnet") and
\* reports the other value
HandleNetworkSwitch(checked) ==
  /\ isInitialized
  /\ checked # (network = "testnet")
  /\ SetNetwork(IF checked THEN "testnet" ELSE "mainnet")

\* AccountCard with showPrivateKey = account.id renders
\* getAccountPrivateKey(account) (part_001 703, prop at 618 and 654),
\* through the closure of the current render
ShowPrivateKey(i) ==
  /\ Idle /\ isInitialized
  /\ i \in 1..Len(accounts)
  /\ LET key == getAccountPrivateKey(mnemonic, accounts[i])
     IN lastCall' = Call("getAccountPrivateKey",
                         IF key = Null THEN "null"
                         ELSE IF Head(key) = "<throw>" THEN "throw"
                         ELSE "key")
  /\ UNCHANGED <<react, storage, effectPending, timers, now, produced,
                 keyAtImport, lib, dashboard>>

\* the entry of an account id in the balances, Undefined when there is none
BalanceOf(map, accountId) ==
  IF \E e \in map : e.id = accountId
  THEN CHOOSE e \in map : e.id = accountId
  ELSE [id |-> accountId, from |-> "none", loading |-> FALSE]

\* setBalances(prev => ({...prev, [id]: entry}))
WithBalance(map, entry) ==
  {e \in map : e.id # entry.id} \cup {entry}

\* fetchBalance up to its await: the entry is marked loading and keeps the
\* balance it had; the request is sent to the network of the render the
\* callback belongs to
FetchBalanceStarts(map, account) ==
  WithBalance(map, [BalanceOf(map, account.id) EXCEPT !.loading = TRUE])

\* the refresh button of an account card, disabled while its entry is loading
FetchBalance(i) ==
  /\ Idle /\ isInitialized
  /\ i \in 1..Len(accounts)
  /\ ~BalanceOf(balances, accounts[i].id).loading
  /\ balances' = FetchBalanceStarts(balances, accounts[i])
  /\ fetching' = fetching \cup {[id |-> accounts[i].id, network |-> network]}
  /\ Cardinality(fetching') <= MaxFetching
  /\ lastCall' = NoCall
  /\ UNCHANGED <<react, storage, effectPending, timers, now, produced,
                 keyAtImport, lib>>

\* fetchAllBalances: fetchBalance for every account
FetchAllBalances ==
  /\ Idle /\ isInitialized
  /\ accounts # <<>>
  /\ balances' =
       {[BalanceOf(balances, accounts[i].id) EXCEPT !.loading = TRUE] :
          i \in 1..Len(accounts)}
       \cup {e \in balances : \A i \in 1..Len(accounts) : accounts[i].id # e.id}
  /\ fetching' = fetching \cup
       {[id |-> accounts[i].id, network |-> network] : i \in 1..Len(accounts)}
  /\ Cardinality(fetching') <= MaxFetching
  /\ lastCall' = NoCall
  /\ UNCHANGED <<react, storage, effectPending, timers, now, produced,
                 keyAtImport, lib>>

\* fetchBalance after its await: the answer of the network the request went
\* to is stored under the account id
BalanceArrives(request) ==
  /\ request \in fetching
  /\ fetching' = fetching \ {request}
  /\ balances' = WithBalance(balances, [id |-> request.id,
                                        from |-> request.network,
                                        loading |-> FALSE])
  /\ lastCall' = NoCall
  /\ UNCHANGED <<react, storage, effectPending, timers, now, produced,
                 keyAtImport, lib>>

\* what localStorage can hold under NETWORK_STORAGE_KEY at mount
StoredNetworks == {"absent", "mainnet", "testnet", "devnet"}

NetInit ==
  /\ mnemonic = Null
  /\ accounts = <<>>
  /\ solanaIndex = 0
  /\ ethereumIndex = 0
  /\ network = "testnet"
  /\ isInitialized = FALSE
  /\ isLoading = TRUE
  /\ storage \in {[wallet |-> w, network |-> n] :
                    w \in {NoItem, GarbageItem}, n \in StoredNetworks}
  /\ effectPending = FALSE
  /\ timers = <<>>
  /\ now = 0
  /\ lastCall = NoCall
  /\ produced = {}
  /\ keyAtImport = <<>>
  /\ libCall = NoLibCall
  /\ libPrev = NoLibCall
  /\ balances = {}
  /\ fetching = {}

NetMnemonicInputs == {<<"p1">>}
NetNameInputs == {<<>>}
NetEditNameInputs == {<<"N">>}
NetKeyInputs(blockchain) ==
  IF blockchain = "solana" THEN {<<" ", "b58-seed-a", " ">>}
  ELSE {<<" ", "hex64-a">>}

NetNext ==
  \/ LoadEffect
  \/ SaveEffect
  \/ CreateNewWallet
  \/ \E text \in NetMnemonicInputs : HandleImportWallet(text)
  \/ \E b \in BlockchainType, n \in NetNameInputs : HandleAddAccount(b, n)
  \/ \E b \in BlockchainType, n \in ImportNameInputs :
       \E k \in NetKeyInputs(b) : CallImportAccount(k, b, n)
  \/ TimerFires
  \/ \E id \in AccountIds : RemoveAccount(id)
  \/ \E id \in AccountIds, n \in NetEditNameInputs : HandleSaveEdit(id, n)
  \/ ClearWallet
  \/ Reload
  \/ \E checked \in BOOLEAN : HandleNetworkSwitch(checked)
  \/ \E i \in 1..MaxAccounts : ShowPrivateKey(i)

\* The application with its network switch, over every stored preference.
NetSpec == NetInit /\ [][NetNext]_vars

\* createNewWallet from the onboarding flow, which Home renders only for a
\* wallet that is not initialized (part_000 30-32)
OnboardingCreatesWallet ==
  /\ ~isInitialized
  /\ CreateNewWallet

DashNext ==
  \/ LoadEffect
  \/ SaveEffect
  \/ OnboardingCreatesWallet
  \/ \E b \in BlockchainType, n \in NetNameInputs : HandleAddAccount(b, n)
  \/ TimerFires
  \/ ClearWallet
  \/ \E checked \in BOOLEAN : HandleNetworkSwitch(checked)
  \/ \E i \in 1..MaxAccounts : FetchBalance(i)
  \/ FetchAllBalances
  \/ \E request \in fetching : BalanceArrives(request)

\* The dashboard with its balance requests and the network switch.
DashSpec == Init /\ [][DashNext]_vars

\* -------------------------------------------------------------- startup
\* The page is loaded again: a fresh WalletProvider is constructed over the
\* localStorage the last page left, and its effects have not run yet.
\* Pending callbacks and the dashboard die with the old page.
Mount ==
  /\ Idle
  /\ mnemonic' = Null
  /\ accounts' = <<>>
  /\ solanaIndex' = 0
  /\ ethereumIndex' = 0
  /\ network' = "testnet"
  /\ isInitialized' = FALSE
  /\ isLoading' = TRUE
  /\ timers' = <<>>
  /\ produced' = {}
  /\ keyAtImport' = <<>>
  /\ lastCall' = Call("mount", "void")
  /\ DashboardUnmounts
  /\ UNCHANGED <<storage, effectPending, now, lib>>

MountNext ==
  \/ LoadEffect
  \/ SaveEffect
  \/ OnboardingCreatesWallet
  \/ \E b \in BlockchainType, n \in NetNameInputs : HandleAddAccount(b, n)
  \/ \E b \in BlockchainType, n \in ImportNameInputs :
       \E k \in NetKeyInputs(b) : CallImportAccount(k, b, n)
  \/ TimerFires
  \/ \E id \in AccountIds : RemoveAccount(id)
  \/ ClearWallet
  \/ Mount

\* The application across page loads, each load with its own effects.
MountSpec == Init /\ [][MountNext]_vars

\* ----------------------------------------------------------------- claims
\* the counter of a chain
Counter(blockchain) ==
  IF blockchain = "solana" THEN solanaIndex ELSE ethereumIndex

\* this step is a call of addAccount that returned a record; the call is the
\* oldest pending callback, so its chain is Head(timers).blockchain
AddAccountReturned ==
  lastCall'.op = "addAccount" /\ lastCall'.result = "account"

\* this step is a call of removeAccount(lastCall'.id)
RemoveAccountCalled == lastCall'.op = "removeAccount"

\* C1: index monotonicity.  Every addAccount call that returns a record
\* leaves the counter of its chain one above what it was before the call,
\* and a removeAccount call leaves both counters as they were; so after n
\* such calls for a chain the counter is its value before the first call
\* plus n, however many removeAccount calls come between.
C1_IndexMonotonicity ==
  [][ /\ AddAccountReturned =>
           \A b \in BlockchainType :
             Head(timers).blockchain = b => Counter(b)' = Counter(b) + 1
      /\ RemoveAccountCalled =>
           /\ solanaIndex' = solanaIndex
           /\ ethereumIndex' = ethereumIndex ]_vars

\* C1 witness: a chain's counter stands at 2 after its second addAccount
\* (issued against the latest render), with fewer than two records left
\* because a removeAccount came between the two calls.
C1_Witness ==
  /\ lastCall.op = "addAccount" /\ lastCall.result = "account"
  /\ \E b \in BlockchainType :
       /\ Counter(b) = 2
       /\ Len(accounts) = 1
       /\ accounts[1].blockchain = b
       /\ accounts[1].index = 1

\* C2: derivation indices are never reused.  The record an addAccount call
\* produces for a chain carries an index that no record produced earlier for
\* that chain of this wallet carried, removed records included.
C2_IndicesNeverReused ==
  [][ AddAccountReturned =>
        <<accounts'[Len(accounts')].blockchain,
          accounts'[Len(accounts')].index>> \notin produced ]_vars

\* C3: wallet state persists across sessions.  Reloading an initialized
\* wallet whose save effect has run restores the same mnemonic, accounts and
\* counters with isInitialized = true, wallets with a null mnemonic and only
\* imported accounts included.
C3_PersistsAcrossReload ==
  [][ (lastCall'.op = "reload" /\ isInitialized) =>
        /\ mnemonic' = mnemonic
        /\ accounts' = accounts
        /\ solanaIndex' = solanaIndex
        /\ ethereumIndex' = ethereumIndex
        /\ isInitialized' ]_vars

\* C4: account ids are unique.  In every state the ids of the records in
\* accounts are pairwise distinct, also when Date.now() returned the same
\* value for two calls.
C4_UniqueIds ==
  \A i, j \in 1..Len(accounts) : accounts[i].id = accounts[j].id => i = j

\* C5: in every state each record is exactly one of (a) HD-derived with a
\* non-null wallet mnemonic, or (b) imported with a stored key; no state
\* holds a non-imported record while the mnemonic is null.
C5_DerivableOrImported ==
  \A i \in 1..Len(accounts) :
    LET a == accounts[i]
        derivable == ~a.isImported /\ a.index >= 0 /\ Truthy(mnemonic)
        imported == a.isImported /\ Truthy(a.importedPrivateKey)
    IN (derivable \/ imported) /\ ~(derivable /\ imported)

\* C6: addAccount called while the wallet's mnemonic is null fails with the
\* error 'Wallet not initialized' and leaves accounts, both counters, the
\* mnemonic and isInitialized unchanged.
C6_AddAccountNeedsMnemonic ==
  [][ (lastCall'.op = "addAccount" /\ ~Truthy(mnemonic)) =>
        /\ lastCall'.result = "throw Wallet not initialized"
        /\ UNCHANGED wallet ]_vars

\* C7: a successful addAccount(chain) appends exactly one record, of that
\* chain, to the end of accounts and raises only that chain's counter by 1;
\* the other counter, the mnemonic and every existing record are unchanged.
C7_AddAccountFrame ==
  [][ AddAccountReturned =>
        /\ Len(accounts') = Len(accounts) + 1
        /\ SubSeq(accounts', 1, Len(accounts)) = accounts
        /\ accounts'[Len(accounts')].blockchain = Head(timers).blockchain
        /\ \A b \in BlockchainType :
             Counter(b)' = IF b = Head(timers).blockchain THEN Counter(b) + 1
                           ELSE Counter(b)
        /\ mnemonic' = mnemonic ]_vars

\* C7 witness: addAccount has just appended a record of one chain behind an
\* existing record of the other chain, whose counter is ahead.
C7_Witness ==
  /\ lastCall.op = "addAccount" /\ lastCall.result = "account"
  /\ Len(accounts) = 2
  /\ accounts[1].blockchain = "ethereum" /\ ethereumIndex = 2
  /\ accounts[2].blockchain = "solana" /\ solanaIndex = 1

\* positions of the records removeAccount(accountId) must keep
Kept(accountId) == {i \in 1..Len(accounts) : accounts[i].id # accountId}

\* C8: removeAccount(id) removes the record with that id and nothing else.
\* The records with another id remain, unchanged and in the same order;
\* both counters and the mnemonic are unchanged; and when no record has the
\* id the wallet state is exactly what it was.
C8_RemoveAccountFrame ==
  [][ RemoveAccountCalled =>
        LET kept == Kept(lastCall'.id)
        IN /\ Len(accounts') = Cardinality(kept)
           /\ \E f \in [1..Len(accounts') -> kept] :
                /\ \A j, k \in 1..Len(accounts') : j < k => f[j] < f[k]
                /\ \A j \in 1..Len(accounts') : accounts'[j] = accounts[f[j]]
           /\ solanaIndex' = solanaIndex
           /\ ethereumIndex' = ethereumIndex
           /\ mnemonic' = mnemonic
           /\ kept = 1..Len(accounts) => UNCHANGED wallet ]_vars

\* C8 witness: removeAccount has just removed the first of two records with
\* different ids; the second is left and no counter went down.
C8_Witness ==
  /\ lastCall.op = "removeAccount"
  /\ Len(accounts) = 1
  /\ accounts[1].id # lastCall.id
  /\ accounts[1].index = 1
  /\ Counter(accounts[1].blockchain) = 2

\* C9: renameAccount(id, newName) is a no-op when no record has that id, and
\* an empty or whitespace-only newName leaves the name unchanged; so a
\* renameAccount call never leaves a record with a blank name.
C9_RenameKeepsNames ==
  [][ lastCall'.op = "renameAccount" =>
        /\ Kept(lastCall'.id) = 1..Len(accounts) => accounts' = accounts
        /\ \A i \in 1..Len(accounts') : Truthy(Trim(accounts'[i].name)) ]_vars

\* the phrases a render can hold
Mnemonics == {Null} \cup ValidPhrases

\* C10: import/reveal round trip.  For every account that importAccount
\* produced, getAccountPrivateKey and getPrivateKey return exactly the
\* normalized key text of the import (trimmed for Solana; trimmed with "0x"
\* prepended when absent for Ethereum), whatever the mnemonic and whatever
\* was renamed, added or removed since.
C10_ImportRevealRoundTrip ==
  \A i \in 1..Len(accounts) :
    keyAtImport[i] # Undefined =>
      \A m \in Mnemonics :
        /\ getAccountPrivateKey(m, accounts[i]) = keyAtImport[i]
        /\ getPrivateKey(m, accounts[i]) = keyAtImport[i]

\* C10 witness: an Ethereum account imported from a text that had to be
\* normalized, renamed since, next to an HD account added after it.
C10_Witness ==
  /\ Len(accounts) = 2 /\ Len(keyAtImport) = 2
  /\ accounts[1].isImported /\ accounts[1].blockchain = "ethereum"
  /\ accounts[1].name = <<"N">>
  /\ keyAtImport[1] = <<"0x", "hex64-a">>
  /\ ~accounts[2].isImported

\* C11: revealing the private key of a non-imported account while the
\* mnemonic is null returns null as a value, from getAccountPrivateKey and
\* from getPrivateKey alike; neither raises an error.
C11_RevealWithoutMnemonicIsNull ==
  (/\ libCall.fn \in {"getPrivateKey", "getAccountPrivateKey"}
   /\ ~Truthy(libCall.args[1])
   /\ ~libCall.args[2].isImported)
    => libCall.result = Null

\* sub lists records of seq in the order they have in seq
RECURSIVE IsOrderedSubSeq(_, _)
IsOrderedSubSeq(sub, seq) ==
  IF sub = <<>> THEN TRUE
  ELSE IF seq = <<>> THEN FALSE
  ELSE IF Head(sub) = Head(seq) /\ IsOrderedSubSeq(Tail(sub), Tail(seq))
  THEN TRUE
  ELSE IsOrderedSubSeq(sub, Tail(seq))

\* the number of records of a chain in a sequence of records
CountOf(seq, blockchain) ==
  Cardinality({i \in 1..Len(seq) : seq[i].blockchain = blockchain})

\* C12: accounts is always in insertion order.  addAccount and importAccount
\* put the new record last behind the unchanged old ones, removeAccount
\* leaves the remaining records in the order they had, a rename changes
\* names only; and after every step the views solanaAccounts and
\* ethereumAccounts list exactly their chain's records in the order they
\* have in accounts.
C12_InsertionOrder ==
  [][ /\ (lastCall'.op \in {"addAccount", "importAccount"}
            /\ lastCall'.result = "account") =>
           /\ Len(accounts') = Len(accounts) + 1
           /\ SubSeq(accounts', 1, Len(accounts)) = accounts
      /\ lastCall'.op = "removeAccount" =>
           IsOrderedSubSeq(accounts', accounts)
      /\ lastCall'.op \in {"renameAccount", "handleSaveEdit"} =>
           /\ Len(accounts') = Len(accounts)
           /\ \A i \in 1..Len(accounts) :
                accounts'[i] = [accounts[i] EXCEPT !.name = accounts'[i].name]
      /\ IsOrderedSubSeq(solanaAccounts', accounts')
      /\ IsOrderedSubSeq(ethereumAccounts', accounts')
      /\ Len(solanaAccounts') = CountOf(accounts', "solana")
      /\ Len(ethereumAccounts') = CountOf(accounts', "ethereum")
      /\ \A i \in 1..Len(solanaAccounts') :
           solanaAccounts'[i].blockchain = "solana"
      /\ \A i \in 1..Len(ethereumAccounts') :
           ethereumAccounts'[i].blockchain = "ethereum" ]_vars

\* C12 witness: a rename has just changed the first of two Solana records
\* with different ids; it is still the first, and the Solana view lists
\* the two in the order of their insertion.
C12_Witness ==
  /\ lastCall.op = "handleSaveEdit"
  /\ Len(accounts) = 2
  /\ accounts[1].blockchain = "solana" /\ accounts[1].name = <<"N">>
  /\ accounts[2].blockchain = "solana" /\ accounts[2].name # <<"N">>
  /\ accounts[1].id # accounts[2].id
  /\ solanaAccounts = accounts

\* C13: every record importAccountFromPrivateKey returns has isImported =
\* true, index = -1, derivationPath = "imported", the requested chain as
\* blockchain, and the normalized input text as importedPrivateKey.
C13_ImportedRecordFields ==
  (libCall.fn = "importAccountFromPrivateKey" /\ libCall.result.ok) =>
    LET account == libCall.result.account
        text == libCall.args[1]
        blockchain == libCall.args[2]
    IN /\ account.isImported = TRUE
       /\ account.index = -1
       /\ account.derivationPath = <<"imported">>
       /\ account.blockchain = blockchain
       /\ account.importedPrivateKey = NormalizedKeyText(text, blockchain)

\* C13 witness: a Solana record returned for a key text with blanks around
\* it.
C13_Witness ==
  /\ libCall.fn = "importAccountFromPrivateKey"
  /\ libCall.args = <<<<" ", "b58-keypair-a", " ">>, "solana">>
  /\ libCall.result.ok

\* C14: a failed import never throws and never changes state.  importAccount
\* returns a record or null; when it returns null, accounts, the mnemonic,
\* both counters and isInitialized are what they were; and it returns a
\* record only for a key text that validates, so a text that cannot be
\* decoded or validated gives null.
C14_FailedImportChangesNothing ==
  [][ lastCall'.op = "importAccount" =>
        /\ lastCall'.result \in {"account", "null"}
        /\ lastCall'.result = "null" => UNCHANGED wallet
        /\ lastCall'.result = "account" =>
             /\ accounts' # <<>>
             /\ validatePrivateKey(
                  accounts'[Len(accounts')].importedPrivateKey,
                  accounts'[Len(accounts')].blockchain) ]_vars

\* C14 witness: importAccount has just returned null in a wallet that holds
\* a phrase and an account.
C14_Witness ==
  /\ lastCall.op = "importAccount" /\ lastCall.result = "null"
  /\ isInitialized /\ Truthy(mnemonic) /\ Len(accounts) = 1
  /\ solanaIndex = 1

\* the stated rule for an Ethereum key text: trimmed, with "0x" prepended
\* when absent, it is "0x" followed by 64 hex digits whose scalar is nonzero
\* and below the curve order
EthereumRule(text) ==
  LET trimmed == Trim(text)
      digits == IF trimmed # <<>> /\ Head(trimmed) = "0x" THEN Tail(trimmed)
                ELSE trimmed
  IN /\ Len(digits) = 1
     /\ HexDigits(digits[1]) = 64
     /\ digits[1] \notin {"hex64-zero", "hex64-above-order"}

\* C15: validateEthereumPrivateKey returns true iff the text follows the
\* stated rule (so false for 63 hex digits and for 64 zeros), and
\* importEthereumAccount returns a record exactly for the texts that
\* validateEthereumPrivateKey accepts.
C15_EthereumValidation ==
  /\ libCall.fn = "validateEthereumPrivateKey" =>
       libCall.result = EthereumRule(libCall.args[1])
  /\ (libCall.fn = "importAccountFromPrivateKey"
        /\ libCall.args[2] = "ethereum") =>
       libCall.result.ok = validateEthereumPrivateKey(libCall.args[1])

\* C15 witness: validateEthereumPrivateKey has just rejected 64 zeros.
C15_Witness ==
  /\ libCall.fn = "validateEthereumPrivateKey"
  /\ libCall.args = <<<<"hex64-zero">>>>
  /\ libCall.result = FALSE

\* the stated rule for a Solana key text: trimmed, it base58-decodes to 64
\* bytes that are a keypair whose halves match, or to 32 bytes
SolanaRule(text) ==
  LET trimmed == Trim(text)
  IN /\ Len(trimmed) = 1
     /\ \/ bs58DecodedLength(trimmed[1]) = 64
           /\ trimmed[1] # "b58-keypair-mismatch"
        \/ bs58DecodedLength(trimmed[1]) = 32

\* C16: validateSolanaPrivateKey returns true only for a text that
\* base58-decodes to a 64-byte keypair that reconstructs or to a 32-byte
\* seed, and false (a value, not an error) for every other length and for a
\* text that does not decode; importSolanaAccount returns a record exactly
\* for the texts that validateSolanaPrivateKey accepts.
C16_SolanaValidation ==
  /\ libCall.fn = "validateSolanaPrivateKey" =>
       libCall.result = SolanaRule(libCall.args[1])
  /\ (libCall.fn = "importAccountFromPrivateKey"
        /\ libCall.args[2] = "solana") =>
       libCall.result.ok = validateSolanaPrivateKey(libCall.args[1])

\* C16 witness: validateSolanaPrivateKey has just rejected a text that
\* decodes to 31 bytes.
C16_Witness ==
  /\ libCall.fn = "validateSolanaPrivateKey"
  /\ libCall.args = <<<<"b58-31-bytes">>>>
  /\ libCall.result = FALSE

\* what the chain's derivation function gives for a phrase and an index
Derived(phrase, blockchain, index) ==
  IF blockchain = "solana" THEN deriveSolanaKeypair(phrase, index)
  ELSE deriveEthereumWallet(phrase, index)

\* C17: in every state, every HD record in accounts has the publicKey and
\* the derivationPath that its chain's derivation function gives for the
\* wallet's mnemonic and the record's index, and the key that
\* getAccountPrivateKey reveals for it is the private key of that
\* derivation.
C17_RecordsMatchDerivation ==
  \A i \in 1..Len(accounts) :
    ~accounts[i].isImported =>
      /\ Truthy(mnemonic)
      /\ LET a == accounts[i]
             d == Derived(mnemonic, a.blockchain, a.index)
         IN /\ a.publicKey = d.publicKey
            /\ a.derivationPath = d.derivationPath
            /\ a.derivationPath = DERIVATION_PATHS(a.blockchain, a.index)
            /\ getAccountPrivateKey(mnemonic, a) =
                 IF a.blockchain = "solana" THEN bs58Encode(d.secretKey)
                 ELSE d.privateKey

\* this step is a call of a function of the library
LibStep == lib' # lib

\* the keys and the path in the result of a derivation or reveal call
KeysOf(call) ==
  IF call.fn = "createAccount"
  THEN <<call.result.publicKey, call.result.derivationPath>>
  ELSE <<call.result>>

C19_ValidationIsNormalizationInsensitive ==
  libCall.fn = "validateMnemonic" =>
    LET t == Trim(libCall.args[1])
        canonical == IF t \in {<<"P1">>, <<"p1-double-spaced">>}
                     THEN <<"p1">> ELSE t
    IN libCall.result = validateMnemonic(canonical)

\* C20: a rejected recovery phrase is reported as false and changes
\* nothing.  importWallet returns true or false (it never throws); when it
\* returns false, for an empty, non-string or invalid phrase, mnemonic,
\* accounts, both counters and isInitialized are what they were; and it
\* returns true only for a phrase bip39 accepts, which then is the
\* wallet's phrase.
C20_RejectedPhraseChangesNothing ==
  [][ lastCall'.op = "importWallet" =>
        /\ lastCall'.result \in {"true", "false"}
        /\ lastCall'.result = "false" => UNCHANGED wallet
        /\ lastCall'.result = "true" =>
             /\ bip39Validate(mnemonic')
             /\ accounts' = <<>> /\ isInitialized' ]_vars

\* C20 witness: importWallet has just returned false in a wallet that holds
\* a phrase, an Ethereum account and an advanced counter.
C20_Witness ==
  /\ lastCall.op = "importWallet" /\ lastCall.result = "false"
  /\ isInitialized /\ Truthy(mnemonic) /\ Len(accounts) = 1
  /\ ethereumIndex = 1

\* C21: switching networks clears the cached balances.  In every state every
\* balance shown by the dashboard was obtained from the network the wallet
\* is switched to, also when a request sent to the previous network is
\* answered after the switch.
C21_BalancesAreOfTheNetwork ==
  \A e \in balances : e.from \in {"none", network}

\* the operations of the provider on the wallet
WalletOps == {"createNewWallet", "importWallet", "addAccount",
              "importAccount", "removeAccount", "renameAccount",
              "handleSaveEdit", "clearWallet"}

\* C22: the network preference persists under its own storage key.
\* setNetwork(n) stores n; only setNetwork changes the stored value; a reload
\* comes up with the stored value, or with "testnet" when the stored value
\* is not "mainnet" or "testnet" or there is none, and so does the first
\* load; and no operation on the wallet changes network or the stored value.
C22_NetworkPreferencePersists ==
  [][ /\ lastCall'.op = "setNetwork" =>
           /\ network' \in NetworkType
           /\ storage'.network = network'
      /\ lastCall'.op # "setNetwork" => storage'.network = storage.network
      /\ lastCall'.op = "reload" =>
           network' = IF storage.network \in NetworkType
                      THEN storage.network ELSE "testnet"
      /\ (isLoading /\ ~isLoading' /\ storage.network \notin NetworkType) =>
           network' = "testnet"
      /\ lastCall'.op \in WalletOps => network' = network ]_vars

\* C22 witness: a reload has just restored mainnet, which is the stored
\* preference, for a wallet that holds an account.
C22_Witness ==
  /\ lastCall.op = "reload"
  /\ network = "mainnet" /\ storage.network = "mainnet"
  /\ isInitialized /\ accounts # <<>>

\* C23: the recovery phrase is immutable once accepted.  mnemonic changes
\* only in a step of createNewWallet, of an importWallet that returns true,
\* of clearWallet, or of the load at startup (and at a reload); addAccount,
\* importAccount, removeAccount, renameAccount, getAccountPrivateKey and
\* setNetwork leave it unchanged.
C23_MnemonicImmutable ==
  [][ /\ mnemonic' # mnemonic =>
           \/ lastCall'.op \in {"createNewWallet", "clearWallet", "reload"}
           \/ lastCall'.op = "importWallet" /\ lastCall'.result = "true"
           \/ isLoading /\ ~isLoading'
      /\ lastCall'.op \in {"addAccount", "importAccount", "removeAccount",
                           "renameAccount", "handleSaveEdit",
                           "getAccountPrivateKey", "setNetwork"} =>
           mnemonic' = mnemonic ]_vars

\* C23 witness: addAccount has just appended a second record to a wallet
\* that holds its phrase.
C23_Witness ==
  /\ lastCall.op = "addAccount"
  /\ Truthy(mnemonic) /\ Len(accounts) = 2

\* a record carries a private key exactly when it is imported, has index -1
\* and has the derivation path "imported"
KeyOnlyIfImported(a) ==
  LET carriesKey == a.importedPrivateKey # Undefined
  IN /\ carriesKey <=> a.isImported
     /\ a.isImported <=> a.index = -1
     /\ a.isImported <=> a.derivationPath = <<"imported">>

\* the records of the value stored under STORAGE_KEY, as JSON.parse reads them
StoredAccounts ==
  IF storage.wallet.kind = "json" THEN Parse(storage.wallet.json).accounts
  ELSE <<>>

\* C24: private key material of HD accounts is never stored.  In every state,
\* every record of accounts and every record of the value written to
\* localStorage carries importedPrivateKey iff it is imported, iff its index
\* is -1, iff its derivation path is "imported"; so the records addAccount
\* makes carry no private key.
C24_NoKeyOfHDAccounts ==
  /\ \A i \in 1..Len(accounts) : KeyOnlyIfImported(accounts[i])
  /\ \A i \in 1..Len(StoredAccounts) : KeyOnlyIfImported(StoredAccounts[i])

\* C24 witness: the stored value holds a record made by addAccount and an
\* imported record.
C24_Witness ==
  /\ Len(StoredAccounts) = 2
  /\ ~StoredAccounts[1].isImported
  /\ StoredAccounts[2].isImported
  /\ StoredAccounts[2].importedPrivateKey # Undefined

\* C25: two addAccount calls for one chain issued from the same rendered
\* snapshot still make two different records: any two records of accounts
\* that addAccount made for the same chain differ in index, derivation path
\* and public key.
C25_SnapshotCallsGetDistinctIndices ==
  \A i, j \in 1..Len(accounts) :
    ( /\ i < j
      /\ ~accounts[i].isImported /\ ~accounts[j].isImported
      /\ accounts[i].blockchain = accounts[j].blockchain ) =>
      /\ accounts[i].index # accounts[j].index
      /\ accounts[i].derivationPath # accounts[j].derivationPath
      /\ accounts[i].publicKey # accounts[j].publicKey

\* the wallet as clearWallet leaves it
Cleared ==
  /\ mnemonic = Null /\ accounts = <<>>
  /\ solanaIndex = 0 /\ ethereumIndex = 0
  /\ ~isInitialized /\ ~isLoading

\* C26: clearWallet is final with respect to earlier requests.  From a
\* cleared wallet, a step that is not a call of createNewWallet, importWallet
\* or importAccount leaves accounts empty, both counters 0 and mnemonic
\* null, also when it is a deferred addAccount callback scheduled before
\* clearWallet.
C26_ClearWalletIsFinal ==
  [][ ( /\ Cleared
        /\ lastCall'.op \notin {"createNewWallet", "importWallet",
                                "importAccount"} ) =>
        /\ accounts' = <<>>
        /\ solanaIndex' = 0 /\ ethereumIndex' = 0
        /\ mnemonic' = Null ]_vars

\* C27: startup never clobbers a stored wallet.  While the provider is
\* loading the load effect can run, whatever the storage holds; the step
\* that runs it, with the save effect of the mount render, leaves the
\* STORAGE_KEY entry as it found it and ends with isLoading = false.
C27_StartupKeepsStoredWallet ==
  /\ [](isLoading => ENABLED LoadEffect)
  /\ [][ isLoading =>
           /\ storage'.wallet = storage.wallet
           /\ ~isLoading' ]_vars

\* C27 witness: the load has just applied a stored wallet with an account,
\* the entry is still what it was, and the next save effect is pending.
C27_Witness ==
  /\ lastCall = NoCall /\ ~isLoading /\ effectPending
  /\ storage.wallet.kind = "json"
  /\ Len(accounts) = 1 /\ Truthy(mnemonic)
  /\ Parse(storage.wallet.json).accounts = accounts

C29_FreshWallet ==
  [][ /\ lastCall'.op = "createNewWallet" =>
           /\ mnemonic' \in GeneratedPhrases
           /\ accounts' = <<>> /\ solanaIndex' = 0 /\ ethereumIndex' = 0
           /\ isInitialized'
      /\ (lastCall'.op = "importWallet" /\ lastCall'.result = "true") =>
           /\ \E p \in MnemonicInputs :
                validateMnemonic(p) /\ mnemonic' = Trim(p)
           /\ bip39Validate(mnemonic')
           /\ accounts' = <<>> /\ solanaIndex' = 0 /\ ethereumIndex' = 0
           /\ isInitialized'
      /\ lastCall'.op = "clearWallet" =>
           /\ mnemonic' = Null
           /\ accounts' = <<>> /\ solanaIndex' = 0 /\ ethereumIndex' = 0
           /\ ~isInitialized'
           /\ storage'.wallet.kind = "absent" ]_vars

\* C29 witness: importWallet has just accepted the phrase p2, typed with
\* surrounding blanks, and the stored wallet is the fresh one.
C29_Witness ==
  /\ lastCall.op = "importWallet" /\ lastCall.result = "true"
  /\ mnemonic = <<"p2">> /\ accounts = <<>> /\ isInitialized
  /\ Parse(storage.wallet.json).mnemonic = <<"p2">>

\* C30: isInitialized tracks the wallet's content.  In every state a wallet
\* that holds a phrase or an account is initialized, and an importAccount
\* that returns a record leaves the wallet initialized without changing
\* mnemonic or either counter.
C30_InitializedTracksContent ==
  /\ []((mnemonic # Null \/ accounts # <<>>) => isInitialized)
  /\ [][ (lastCall'.op = "importAccount" /\ lastCall'.result = "account") =>
           /\ isInitialized'
           /\ UNCHANGED <<mnemonic, solanaIndex, ethereumIndex>> ]_vars

====
